---- MODULE Spec2Model ----
(***************************************************************************)
(* A model of Generate_daily_video.py: main() = build_video() followed by  *)
(* maybe_upload_to_youtube(path).  Times are integers in milliseconds.     *)
(* Calls into moviepy, the OS and the Google SDK are steps that either     *)
(* return or raise; what they leave behind (the file, the event log) is    *)
(* state.                                                                  *)
(***************************************************************************)
EXTENDS Integers, Sequences, FiniteSets, TLC

\* ---------------------------------------------------------------- constants

W == 720
H == 1280
FPS == 24
DUR == 12
OUT_DIR == "out"
OUT_PATH == "out/video.mp4"

\* Milliseconds of a duration given in seconds.
Ms(sec) == sec * 1000

\* A second path of the file system, so that a write can miss OUT_PATH.
OTHER_PATH == "video.mp4"
Paths == {OUT_PATH, OTHER_PATH}

\* ---------------------------------------------------------------- bounds

\* Width and height of the pixel grid the speed-line frames are drawn on.
GridW == 12
GridH == 6
\* Frame times of make_frame are k/8 s, k in 0..MaxTick (exact in binary).
MaxTick == 10
\* Calls of pos(t) with distinct results that are followed.
MaxPosCalls == 3

\* ---------------------------------------------------------------- helpers

Max(a, b) == IF a >= b THEN a ELSE b

RECURSIVE MaxEnd(_)
MaxEnd(ls) ==
    IF ls = <<>> THEN 0
    ELSE Max(Head(ls).start + Head(ls).dur, MaxEnd(Tail(ls)))

Range(s) == {s[i] : i \in 1..Len(s)}

Ev(op, arg) == [op |-> op, arg |-> arg]

\* Positions of the events of kind op in a log.
At(lg, op) == {i \in 1..Len(lg) : lg[i].op = op}

Has(lg, op) == At(lg, op) # {}

\* ---------------------------------------------------------------- clips

VClip(name, start, dur) == [name |-> name, start |-> start, dur |-> dur]

AClip(kind, start, dur) == [kind |-> kind, start |-> start, dur |-> dur]

\* tone(freq, dur, vol): a sine AudioClip of the given duration.
tone(freq, dur) == AClip("tone", 0, dur)

whoosh(dur) == AClip("whoosh", 0, dur)

thump(dur) == AClip("thump", 0, dur)

set_start(c, t) == [c EXCEPT !.start = t]

flash_clip(dur) == VClip("flash", 0, dur)

fighters ==
    << <<"KAZE", "#ff3b3b">>, <<"RYU", "#35f0ff">>, <<"AKIRA", "#ffd23b">>,
       <<"SHIN", "#b05cff">>, <<"YUMI", "#7bff7b">>, <<"REI", "#ff7be7">> >>

NoFighter == <<"", "">>

impact_times == <<3600, 4200, 5100, 6000, 6900, 7800, 8600, 9200>>

\* Two independent picks, which may coincide.
random_sample_with_replacement(pop) ==
    {<<pop[i], pop[j]>> : i \in 1..Len(pop), j \in 1..Len(pop)}

\* random.sample(pop, 2): every ordered pair of entries at two different
\* positions is a possible outcome.
random_sample(pop) ==
    {<<pop[p[1]], pop[p[2]]>> :
        p \in {q \in (1..Len(pop)) \X (1..Len(pop)) : q[1] # q[2]}}

\* The visual layers, by the local variable that holds each.
BgLayer == VClip("bg", 0, Ms(DUR))

TitleLayer == VClip("title", 0, 1500)

\* left_txt / right_txt last 2.5 s and start at 1.5 s; VS starts at 1.6 s.
VersusLayers(l, r) ==
    [left_clip |-> set_start(VClip(l[1], 0, 2500), 1500),
     right_clip |-> set_start(VClip(r[1], 0, 2500), 1500),
     vs |-> set_start(VClip("VS", 0, 2500), 1600)]

\* An action background that outlasts the composite.
ActionLayersLong ==
    [action_bg |-> set_start(VClip("action_bg", 0, Ms(9)), 3200),
     lines1 |-> set_start(VClip("lines1", 0, 2500), 3200),
     lines2 |-> set_start(VClip("lines2", 0, 2500), 5700)]

ActionLayers ==
    [action_bg |-> set_start(VClip("action_bg", 0, Ms(7)), 3200),
     lines1 |-> set_start(VClip("lines1", 0, 2500), 3200),
     lines2 |-> set_start(VClip("lines2", 0, 2500), 5700)]

Flashes == [k \in 1..Len(impact_times) |-> set_start(flash_clip(80), impact_times[k])]

SlashLayers ==
    [slash |-> set_start(VClip("slash", 0, 250), 4900),
     slash2 |-> set_start(VClip("slash", 0, 250), 7200)]

\* CompositeVideoClip(clips): its duration is the latest end of its clips.
CompositeVideoClip(ls) ==
    [layers |-> ls, size |-> <<W, H>>, duration |-> MaxEnd(ls), audio |-> {}]

NoComp == [layers |-> <<>>, size |-> <<0, 0>>, duration |-> 0, audio |-> {}]

\* Number of frames write_videofile encodes for a clip.
Frames(c) == (c.duration * FPS) \div 1000

NoFile == [frames |-> 0, audio |-> {}]

DirOf(p) == IF p = OUT_PATH THEN OUT_DIR ELSE "."

\* ---------------------------------------------------------------- shake_pos

\* int(t * 1000) for a time t given in microseconds.
MsKey(t) == t \div 1000

\* random.Random(seed): the state of a generator of its own, a function of
\* the seed alone (a small linear congruential generator stands for the
\* Mersenne Twister; its outputs differ, its being a function of the seed
\* does not).
Seeded(seed) == (seed * 75 + 74) % 65537

Advance(s) == (s * 75 + 74) % 65537

\* rng.randint(a, b) from generator state s.
randint(s, a, b) == a + (s % (b - a + 1))

\* pos(t) drawing from a generator that was not seeded from t: some of the
\* outcomes it can then return.
shake_pos_unseeded(intensity, t) ==
    {<<a, b>> : a \in {-intensity, intensity}, b \in {-intensity, intensity}}

\* shake_pos(intensity)(t): the offsets pos(t) can return.
shake_pos(intensity, t) ==
    LET s1 == Advance(Seeded(MsKey(t) + 42))
        s2 == Advance(s1)
    IN  {<<randint(s1, -intensity, intensity), randint(s2, -intensity, intensity)>>}

\* Times, in microseconds, at which the renderer asks pos(t): frame times of
\* a 24 fps clip and one more inside the same millisecond as the second.
ShakeTimes == {0, 41666, 41999}

\* ---------------------------------------------------------------- upload

UNSET == "<unset>"

EnvValues == {UNSET, "", "secret"}

\* Truthiness with the empty string taken for a value.
TruthyNotNone(v) == v # UNSET

\* Python truthiness of os.getenv's result: None and "" are false.
Truthy(v) == v \notin {UNSET, ""}

\* cid and csec and rtok
CredsPresent(e) ==
    Truthy(e.YT_CLIENT_ID) /\ Truthy(e.YT_CLIENT_SECRET) /\ Truthy(e.YT_REFRESH_TOKEN)

\* The classes of exception the steps of the upload raise; all derive from
\* Exception.
Raisable(step) ==
    CASE step = "import" -> {"ImportError"}
      [] step = "credentials" -> {"ValueError"}
      [] step = "build" -> {"HttpError", "OSError"}
      [] step = "media" -> {"FileNotFoundError"}
      [] step = "insert" -> {"HttpError", "RefreshError"}
      [] step = "report" -> {"KeyError"}
      [] OTHER -> {}

\* A handler that names one class of the SDK only.
CatchesHttpErrorOnly(k) == k = "HttpError"

\* except Exception: every class above is caught.
Catches(k) ==
    k \in {"ImportError", "ValueError", "HttpError", "OSError",
           "FileNotFoundError", "RefreshError", "KeyError"}

\* main passing a path of its own to the upload.
main_path_literal(ret) == OTHER_PATH

\* main: path = build_video(); maybe_upload_to_youtube(path)
main_path(ret) == ret

\* write_videofile's target missing OUT_PATH.
WriteTargetOther == OTHER_PATH

\* comp.write_videofile(OUT_PATH, ...)
WriteTarget == OUT_PATH

\* An exception in build_video swallowed, the flow going on to the upload.
BuildRaiseSwallowed == "getenv"

\* No try/except around build_video: the exception leaves main.
BuildRaiseTarget == "crashed"

\* ---------------------------------------------------------------- state

VARIABLES
    pc,        \* the statement main is at
    env,       \* the process environment: the three YT_* variables
    dirs,      \* directories that exist
    files,     \* the file at each path: frames encoded and audio track
    left,      \* build_video's local left
    right,     \* build_video's local right
    clips,     \* build_video's locals holding visual layers, by name
    audio,     \* build_video's local audio: layered sounds and duration
    i,         \* index of the impact time the audio loop is at
    comp,      \* build_video's local comp
    log,       \* what the process has printed and called, in order
    path,      \* main's local path
    media,     \* maybe_upload_to_youtube's local media (the file it names)
    raised,    \* the step at which an exception was raised, "" if none
    shaken,    \* the calls of pos(t) made so far, with what each returned
    gdraws,    \* draws taken from the module-level random generator
    fcfg,      \* speedlines_clip's arguments for the frame being drawn
    ftick,     \* make_frame's t, in eighths of a second
    frow,      \* make_frame's loop variable y
    img        \* make_frame's pixel buffer, img[y][x] in {0, 255}

mainVars == <<pc, env, dirs, files, left, right, clips, audio, i, comp, log,
              path, media, raised, shaken, gdraws>>

frameVars == <<fcfg, ftick, frow, img>>

vars == <<pc, env, dirs, files, left, right, clips, audio, i, comp, log,
          path, media, raised, shaken, gdraws, fcfg, ftick, frow, img>>

NoClips == [n \in {} |-> 0]

Bind(f, g) == [n \in DOMAIN f \cup DOMAIN g |-> IF n \in DOMAIN g THEN g[n] ELSE f[n]]

NoAudio == [parts |-> {}, duration |-> 0]

NoCfg == [density |-> 1, angle_deg |-> 0, speed |-> 0]

Blank == [y \in 0..(GridH - 1) |-> [x \in 0..(GridW - 1) |-> 0]]

Stdout(lg, text) == Append(lg, Ev("stdout", text))

Init ==
    /\ pc = "makedirs"
    /\ env \in [{"YT_CLIENT_ID", "YT_CLIENT_SECRET", "YT_REFRESH_TOKEN"} -> EnvValues]
    /\ dirs \in {{"."}, {".", OUT_DIR}}
    /\ files = [p \in Paths |-> NoFile]
    /\ left = NoFighter
    /\ right = NoFighter
    /\ clips = NoClips
    /\ audio = NoAudio
    /\ i = 0
    /\ comp = NoComp
    /\ log = <<>>
    /\ path = ""
    /\ media = ""
    /\ raised = ""
    /\ shaken = {}
    /\ gdraws = 0
    /\ fcfg = NoCfg
    /\ ftick = 0
    /\ frow = 0
    /\ img = Blank

\* ---------------------------------------------------------------- build_video

\* os.makedirs(OUT_DIR, exist_ok=True)
Makedirs ==
    /\ pc = "makedirs"
    /\ dirs' = dirs \cup {OUT_DIR}
    /\ pc' = "bg"
    /\ UNCHANGED <<env, files, left, right, clips, audio, i, comp, log, path,
                   media, raised, shaken, gdraws, frameVars>>

\* bg = ColorClip((W,H), ..., duration=DUR)
Bg ==
    /\ pc = "bg"
    /\ clips' = Bind(clips, [bg |-> BgLayer])
    /\ pc' = "sample"
    /\ UNCHANGED <<env, dirs, files, left, right, audio, i, comp, log, path,
                   media, raised, shaken, gdraws, frameVars>>

\* left, right = random.sample(fighters, 2)
Sample ==
    /\ pc = "sample"
    /\ \E p \in random_sample(fighters) :
          /\ left' = p[1]
          /\ right' = p[2]
    /\ gdraws' = gdraws + 1
    /\ pc' = "title"
    /\ UNCHANGED <<env, dirs, files, clips, audio, i, comp, log, path, media,
                   raised, shaken, frameVars>>

\* title = TextClip(...).set_duration(1.5)...
Title ==
    /\ pc = "title"
    /\ clips' = Bind(clips, [title |-> TitleLayer])
    /\ pc' = "versus"
    /\ UNCHANGED <<env, dirs, files, left, right, audio, i, comp, log, path,
                   media, raised, shaken, gdraws, frameVars>>

\* left_txt, right_txt, left_clip, right_clip, vs
Versus ==
    /\ pc = "versus"
    /\ clips' = Bind(clips, VersusLayers(left, right))
    /\ pc' = "action"
    /\ UNCHANGED <<env, dirs, files, left, right, audio, i, comp, log, path,
                   media, raised, shaken, gdraws, frameVars>>

\* action_bg, lines1, lines2, impact_times, flashes
Action ==
    /\ pc = "action"
    /\ clips' = Bind(Bind(clips, ActionLayers), [flashes |-> Flashes])
    /\ pc' = "slash"
    /\ UNCHANGED <<env, dirs, files, left, right, audio, i, comp, log, path,
                   media, raised, shaken, gdraws, frameVars>>

\* slash, slash2
Slash ==
    /\ pc = "slash"
    /\ clips' = Bind(clips, SlashLayers)
    /\ pc' = "whoosh"
    /\ UNCHANGED <<env, dirs, files, left, right, audio, i, comp, log, path,
                   media, raised, shaken, gdraws, frameVars>>

\* audio = whoosh(0.35).set_start(1.55)
Whoosh ==
    /\ pc = "whoosh"
    /\ audio' = [parts |-> {set_start(whoosh(350), 1550)}, duration |-> 350]
    /\ i' = 1
    /\ pc' = "thumps"
    /\ UNCHANGED <<env, dirs, files, left, right, clips, comp, log, path,
                   media, raised, shaken, gdraws, frameVars>>

\* One pass of: for t in impact_times: ... the local audio is stretched to
\* t + 0.2 and a thump starting at t is layered on it.
Thump ==
    /\ pc = "thumps"
    /\ i <= Len(impact_times)
    /\ LET t == impact_times[i]
       IN  audio' = [parts |-> audio.parts \cup {set_start(thump(200), t)},
                     duration |-> Max(audio.duration, t + 200)]
    /\ i' = i + 1
    /\ pc' = IF i = Len(impact_times) THEN "composite" ELSE "thumps"
    /\ UNCHANGED <<env, dirs, files, left, right, clips, comp, log, path,
                   media, raised, shaken, gdraws, frameVars>>

\* comp = CompositeVideoClip([bg, title, left_clip, right_clip, vs,
\*            action_bg, lines1, lines2, slash, slash2] + flashes, size=(W,H))
Composite ==
    /\ pc = "composite"
    /\ comp' = CompositeVideoClip(
                  <<clips["bg"], clips["title"], clips["left_clip"],
                    clips["right_clip"], clips["vs"], clips["action_bg"],
                    clips["lines1"], clips["lines2"], clips["slash"],
                    clips["slash2"]>> \o clips["flashes"])
    /\ pc' = "set_audio"
    /\ UNCHANGED <<env, dirs, files, left, right, clips, audio, i, log, path,
                   media, raised, shaken, gdraws, frameVars>>

\* base_tone = tone(440, DUR, vol=0.03); comp = comp.set_audio(base_tone)
SetAudio ==
    /\ pc = "set_audio"
    /\ comp' = [comp EXCEPT !.audio = {tone(440, Ms(DUR))}]
    /\ pc' = "render"
    /\ UNCHANGED <<env, dirs, files, left, right, clips, audio, i, log, path,
                   media, raised, shaken, gdraws, frameVars>>

\* print("Rendering video..."); comp.write_videofile(...) begins
Render ==
    /\ pc = "render"
    /\ log' = Stdout(log, "Rendering video...")
    /\ pc' = "encoding"
    /\ UNCHANGED <<env, dirs, files, left, right, clips, audio, i, comp, path,
                   media, raised, shaken, gdraws, frameVars>>

\* While encoding, the renderer asks the slash layers' position function
\* pos(t), in any order of times.  pos draws from a generator of its own:
\* the module-level generator is left as it is.
Pos ==
    /\ pc = "encoding"
    /\ Cardinality(shaken) < MaxPosCalls
    /\ gdraws' = gdraws
    /\ \E t \in ShakeTimes :
          \E r \in shake_pos(20, t) :
             shaken' = shaken \cup
                 {[t |-> t, key |-> MsKey(t), off |-> r, intensity |-> 20,
                   before |-> gdraws, after |-> gdraws']}
    /\ UNCHANGED <<pc, env, dirs, files, left, right, clips, audio, i, comp,
                   log, path, media, raised, frameVars>>

\* write_videofile returns: the file holds the composite's frames and audio.
WriteDone ==
    /\ pc = "encoding"
    /\ DirOf(WriteTarget) \in dirs
    /\ files' = [files EXCEPT ![WriteTarget] =
                    [frames |-> Frames(comp), audio |-> comp.audio]]
    /\ log' = Append(log, Ev("write_videofile", WriteTarget))
    /\ pc' = "saved"
    /\ UNCHANGED <<env, dirs, left, right, clips, audio, i, comp, path, media,
                   raised, shaken, gdraws, frameVars>>

\* print(f"Saved: {OUT_PATH}"); return OUT_PATH; main binds path and calls
\* maybe_upload_to_youtube(path).
Saved ==
    /\ pc = "saved"
    /\ log' = Stdout(log, "Saved: " \o OUT_PATH)
    /\ path' = main_path(OUT_PATH)
    /\ pc' = "getenv"
    /\ UNCHANGED <<env, dirs, files, left, right, clips, audio, i, comp, media,
                   raised, shaken, gdraws, frameVars>>

BuildSteps ==
    {"makedirs", "bg", "sample", "title", "versus", "action", "slash",
     "whoosh", "thumps", "composite", "set_audio", "encoding"}

\* A call of build_video raises: nothing catches it.
BuildRaises ==
    /\ pc \in BuildSteps
    /\ raised' = pc
    /\ pc' = BuildRaiseTarget
    /\ UNCHANGED <<env, dirs, files, left, right, clips, audio, i, comp, log,
                   path, media, shaken, gdraws, frameVars>>

\* ---------------------------------------------------------------- maybe_upload_to_youtube

\* cid, csec, rtok = os.getenv(...); if not (cid and csec and rtok): print
\* the notice and return.
Getenv ==
    /\ pc = "getenv"
    /\ LET lg == Append(log, Ev("getenv", "YT_*"))
       IN  IF CredsPresent(env)
           THEN /\ pc' = "import"
                /\ log' = lg
           ELSE /\ pc' = "done"
                /\ log' = Stdout(lg, "YouTube secrets not set. Skipping upload.")
    /\ UNCHANGED <<env, dirs, files, left, right, clips, audio, i, comp, path,
                   media, raised, shaken, gdraws, frameVars>>

\* from google... import Credentials, build, MediaFileUpload
Import ==
    /\ pc = "import"
    /\ log' = Append(log, Ev("import", "google"))
    /\ pc' = "credentials"
    /\ UNCHANGED <<env, dirs, files, left, right, clips, audio, i, comp, path,
                   media, raised, shaken, gdraws, frameVars>>

\* creds = Credentials(None, refresh_token=rtok, client_id=cid, ...)
MakeCredentials ==
    /\ pc = "credentials"
    /\ log' = Append(log, Ev("Credentials", env.YT_CLIENT_ID))
    /\ pc' = "build"
    /\ UNCHANGED <<env, dirs, files, left, right, clips, audio, i, comp, path,
                   media, raised, shaken, gdraws, frameVars>>

\* yt = build("youtube", "v3", credentials=creds)
Build ==
    /\ pc = "build"
    /\ log' = Append(log, Ev("build", "youtube v3"))
    /\ pc' = "media"
    /\ UNCHANGED <<env, dirs, files, left, right, clips, audio, i, comp, path,
                   media, raised, shaken, gdraws, frameVars>>

\* today, title, desc, body; media = MediaFileUpload(video_path, ...)
Media ==
    /\ pc = "media"
    /\ media' = path
    /\ log' = Append(log, Ev("MediaFileUpload", path))
    /\ pc' = "insert"
    /\ UNCHANGED <<env, dirs, files, left, right, clips, audio, i, comp, path,
                   raised, shaken, gdraws, frameVars>>

\* The handler of the try block, for an exception of class k raised at the
\* step pc: caught, it prints and the function returns; not caught, it
\* leaves main.
Handle(k, lg) ==
    /\ raised' = pc
    /\ IF Catches(k)
       THEN /\ log' = Stdout(lg, "YouTube upload failed: " \o k)
            /\ pc' = "done"
       ELSE /\ log' = lg
            /\ pc' = "crashed"

\* print("Uploading to YouTube..."); resp = yt.videos().insert(part=...,
\* body=body, media_body=media).execute(): the request is made once and
\* either answers or raises.
Insert ==
    /\ pc = "insert"
    /\ LET lg == Append(Stdout(log, "Uploading to YouTube..."), Ev("insert", media))
       IN  \/ /\ log' = lg
              /\ pc' = "report"
              /\ raised' = raised
           \/ \E k \in Raisable("insert") : Handle(k, lg)
    /\ UNCHANGED <<env, dirs, files, left, right, clips, audio, i, comp, path,
                   media, shaken, gdraws, frameVars>>

\* print(f"Uploaded: https://www.youtube.com/watch?v={resp['id']}")
Report ==
    /\ pc = "report"
    /\ log' = Stdout(log, "Uploaded: https://www.youtube.com/watch?v=")
    /\ pc' = "done"
    /\ UNCHANGED <<env, dirs, files, left, right, clips, audio, i, comp, path,
                   media, raised, shaken, gdraws, frameVars>>

UploadSteps == {"import", "credentials", "build", "media", "report"}

\* A step inside the try block raises before it has had any effect.
UploadRaises ==
    /\ pc \in UploadSteps
    /\ \E k \in Raisable(pc) : Handle(k, log)
    /\ UNCHANGED <<env, dirs, files, left, right, clips, audio, i, comp, path,
                   media, shaken, gdraws, frameVars>>

Next ==
    \/ Makedirs
    \/ Bg
    \/ Sample
    \/ Title
    \/ Versus
    \/ Action
    \/ Slash
    \/ Whoosh
    \/ Thump
    \/ Composite
    \/ SetAudio
    \/ Render
    \/ Pos
    \/ WriteDone
    \/ Saved
    \/ BuildRaises
    \/ Getenv
    \/ Import
    \/ MakeCredentials
    \/ Build
    \/ Media
    \/ Insert
    \/ Report
    \/ UploadRaises

Spec == Init /\ [][Next]_vars

\* ---------------------------------------------------------------- speedlines_clip

\* math.cos(math.radians(angle_deg)) in millionths, for the angles used.
CosMicro(angle_deg) ==
    CASE angle_deg = -20 -> 939692
      [] angle_deg = 20 -> 939692
      [] angle_deg = -25 -> 906307

\* The argument lists speedlines_clip is called with: lines1, lines2 and the
\* defaults.  The densities are scaled with the grid, so that the period
\* GridW \div density spans several pixels as 720 // 16 = 45 does.
LineConfigs ==
    {[density |-> 2, angle_deg |-> -20, speed |-> 500],
     [density |-> 3, angle_deg |-> 20, speed |-> 600],
     [density |-> 4, angle_deg |-> -25, speed |-> 600]}

\* period = W // density
Period(cfg) == GridW \div cfg.density

\* thickness = max(1, period // 3)
Thickness(cfg) == Max(1, Period(cfg) \div 3)

\* shift = int(speed * t), t = tick / 8 s
Shift(cfg, tick) == (cfg.speed * tick) \div 8

\* int(dx * y)
RowOffset(cfg, y) == (CosMicro(cfg.angle_deg) * y) \div 1000000

\* xi = int(x + dx * y + shift) % period
Xi(cfg, tick, x, y) ==
    ((x * 1000000 + CosMicro(cfg.angle_deg) * y + Shift(cfg, tick) * 1000000)
        \div 1000000) % Period(cfg)

\* range(0, W, period)
BlockStarts(cfg) == {x \in 0..(GridW - 1) : x % Period(cfg) = 0}

\* The inner loop over x for one row y: img[y, x:x+thickness] = 255 for
\* every block start x whose xi is below the thickness.
PaintRow(cfg, tick, y, row) ==
    [px \in 0..(GridW - 1) |->
        IF \E x \in BlockStarts(cfg) :
              /\ Xi(cfg, tick, x, y) < Thickness(cfg)
              /\ x <= px
              /\ px < x + Thickness(cfg)
        THEN 255
        ELSE row[px]]

\* make_frame(t) is entered: shift is computed and img is zeroed.
MakeFrame ==
    /\ frow = GridH
    /\ \E cfg \in LineConfigs, k \in 0..MaxTick :
          /\ fcfg' = cfg
          /\ ftick' = k
    /\ frow' = 0
    /\ img' = Blank
    /\ UNCHANGED mainVars

\* One pass of: for y in range(H)
DrawRow ==
    /\ frow < GridH
    /\ fcfg # NoCfg
    /\ img' = [img EXCEPT ![frow] = PaintRow(fcfg, ftick, frow, img[frow])]
    /\ frow' = frow + 1
    /\ UNCHANGED <<fcfg, ftick>>
    /\ UNCHANGED mainVars

\* The frame generator on its own: frames are asked for at any times.
InitLines ==
    /\ pc = "encoding"
    /\ env = [n \in {"YT_CLIENT_ID", "YT_CLIENT_SECRET", "YT_REFRESH_TOKEN"} |-> UNSET]
    /\ dirs = {".", OUT_DIR}
    /\ files = [p \in Paths |-> NoFile]
    /\ left = NoFighter
    /\ right = NoFighter
    /\ clips = NoClips
    /\ audio = NoAudio
    /\ i = 0
    /\ comp = NoComp
    /\ log = <<>>
    /\ path = ""
    /\ media = ""
    /\ raised = ""
    /\ shaken = {}
    /\ gdraws = 0
    /\ fcfg = NoCfg
    /\ ftick = 0
    /\ frow = GridH
    /\ img = Blank

NextLines ==
    \/ MakeFrame
    \/ DrawRow

SpecLines == InitLines /\ [][NextLines]_vars

\* make_frame has returned img for (fcfg, ftick).
FrameReturned == fcfg # NoCfg /\ frow = GridH

\* ---------------------------------------------------------------- properties

CredVars == {"YT_CLIENT_ID", "YT_CLIENT_SECRET", "YT_REFRESH_TOKEN"}

\* At least one credential is unset or empty.
SomeCredAbsent == \E n \in CredVars : env[n] \in {UNSET, ""}

SavedLine == Ev("stdout", "Saved: out/video.mp4")

SkipLine == Ev("stdout", "YouTube secrets not set. Skipping upload.")

Printed(line) == \E k \in 1..Len(log) : log[k] = line

\* Calls into the Google SDK.
ApiOps == {"Credentials", "build", "MediaFileUpload", "insert"}

ApiCalled == \E k \in 1..Len(log) : log[k].op \in ApiOps

\* maybe_upload_to_youtube has been entered.
UploadEntered == Has(log, "getenv")

\* C1: once build_video has chosen, left and right are both entries of the
\* six-entry roster and their names differ; left = right is unreachable.
C1_DistinctFighters ==
    /\ Len(fighters) = 6
    /\ left # NoFighter \/ right # NoFighter =>
          /\ left \in Range(fighters)
          /\ right \in Range(fighters)
          /\ left[1] # right[1]
          /\ left # right

C1_Witness == pc = "title" /\ left = fighters[6] /\ right = fighters[1]

\* C2: with at least one credential unset or empty, no call into the SDK is
\* ever made; once the credential check has run, the skip notice is the last
\* line printed, 'Saved: out/video.mp4' was printed before it, and the run
\* has ended normally with nothing raised in the upload.
C2_AbsentCredsSkip ==
    SomeCredAbsent =>
        /\ ~ApiCalled
        /\ ~Printed(Ev("stdout", "Uploading to YouTube..."))
        /\ raised \notin (UploadSteps \cup {"insert"})
        /\ UploadEntered =>
              /\ pc = "done"
              /\ log[Len(log)] = SkipLine
              /\ Printed(SavedLine)
              /\ \A a \in 1..Len(log), b \in 1..Len(log) :
                    log[a] = SavedLine /\ log[b] = SkipLine => a < b

C2_Witness ==
    /\ env.YT_CLIENT_ID = "secret"
    /\ env.YT_CLIENT_SECRET = ""
    /\ env.YT_REFRESH_TOKEN = "secret"
    /\ pc = "done"
    /\ Printed(SkipLine)

\* C3: with all three credentials present, an exception raised at any step
\* of the upload is caught: 'YouTube upload failed' is the last line
\* printed and the run ends as a run whose upload succeeded does (done);
\* a run never ends in an uncaught exception that was raised in the upload.
C3_UploadFailureCaught ==
    /\ raised \in (UploadSteps \cup {"insert"}) =>
          /\ ~SomeCredAbsent
          /\ pc = "done"
          /\ log[Len(log)].op = "stdout"
          /\ SubSeq(log[Len(log)].arg, 1, 21) = "YouTube upload failed"
    /\ pc = "crashed" => raised \in BuildSteps

C3_Witness ==
    /\ raised = "media"
    /\ pc = "done"
    /\ ~SomeCredAbsent

\* C4: once 'Saved' has been printed (so in every run that ends normally)
\* the directory out exists and the file at out/video.mp4 holds at least
\* one frame, written before the message was printed; path is that path.
C4_OutputExists ==
    /\ Printed(SavedLine) =>
          /\ OUT_DIR \in dirs
          /\ files["out/video.mp4"].frames > 0
          /\ Has(log, "write_videofile")
          /\ \A a \in 1..Len(log), b \in 1..Len(log) :
                log[a].op = "write_videofile" /\ log[b] = SavedLine =>
                    a < b /\ log[a].arg = "out/video.mp4"
          /\ path = "out/video.mp4"
    /\ pc = "done" => Printed(SavedLine)

C4_Witness ==
    /\ pc = "done"
    /\ files["out/video.mp4"].frames = 288
    /\ Printed(SavedLine)

\* C5: an exception raised in build_video leaves main at once: the run is
\* over, 'Saved' is not printed, maybe_upload_to_youtube is never entered
\* and no call into the SDK is made, whatever the credentials.
C5_RenderFailureFatal ==
    raised \in BuildSteps =>
        /\ pc = "crashed"
        /\ ~Printed(SavedLine)
        /\ ~UploadEntered
        /\ ~ApiCalled
        /\ path = ""

C5_Witness ==
    /\ raised = "encoding"
    /\ pc = "crashed"
    /\ ~SomeCredAbsent

\* C6: videos.insert is executed at most once in a run, and when it is, all
\* three credentials are present, the file was written before, and the media
\* it sends is the path build_video returned, which names the written file.
C6_SingleInsert ==
    /\ Cardinality(At(log, "insert")) <= 1
    /\ \A k \in At(log, "insert") :
          /\ ~SomeCredAbsent
          /\ \E w \in At(log, "write_videofile") :
                w < k /\ log[w].arg = log[k].arg
          /\ log[k].arg = "out/video.mp4"
          /\ path = log[k].arg
          /\ files[log[k].arg].frames > 0

C6_Witness ==
    /\ Cardinality(At(log, "insert")) = 1
    /\ raised = "insert"
    /\ pc = "done"

\* C7: the audio track of the written file layers the background tone over
\* the full 12 s, the whoosh starting at 1.55 s and a thump starting at each
\* of the eight impact times.
C7_AllSoundsLayered ==
    files["out/video.mp4"].frames > 0 =>
        LET track == files["out/video.mp4"].audio
        IN  /\ \E a \in track : a.kind = "tone" /\ a.start = 0 /\ a.dur = 12000
            /\ \E a \in track : a.kind = "whoosh" /\ a.start = 1550
            /\ \A t \in {3600, 4200, 5100, 6000, 6900, 7800, 8600, 9200} :
                  \E a \in track : a.kind = "thump" /\ a.start = t

\* C8: in the frame make_frame returns, pixel (x, y) is white exactly when
\* (x + int(dx*y) + shift) mod period < thickness, and black otherwise.
C8_DiagonalPattern ==
    FrameReturned =>
        \A y \in 0..(GridH - 1), x \in 0..(GridW - 1) :
            img[y][x] =
                IF (x + RowOffset(fcfg, y) + Shift(fcfg, ftick)) % Period(fcfg)
                      < Thickness(fcfg)
                THEN 255 ELSE 0

\* C9: the composite lasts 12 s: its first layer, the background, spans
\* [0, 12 s], each of its 18 layers starts at or after 0 and ends by 12 s,
\* and the composite's duration, the latest end, is 12 s.
C9_CompositeDuration ==
    comp # NoComp =>
        /\ Len(comp.layers) = 18
        /\ comp.layers[1].name = "bg"
        /\ comp.layers[1].start = 0
        /\ comp.layers[1].dur = 12000
        /\ \A k \in 1..Len(comp.layers) :
              /\ comp.layers[k].start >= 0
              /\ comp.layers[k].start + comp.layers[k].dur <= 12000
        /\ comp.duration = 12000

C9_Witness ==
    /\ pc = "set_audio"
    /\ Len(comp.layers) = 18
    /\ \E k \in 1..Len(comp.layers) :
          comp.layers[k].name = "flash" /\ comp.layers[k].start = 9200

====
